---- MODULE Spec2Model ----
(***************************************************************************)
(* The useMediaPipe hook of src/src/hooks/useMediaPipe.ts as a state       *)
(* machine: the React state and refs of the hook, the DOM objects it       *)
(* reads and writes (canvas, video, window), the cameras it constructs,    *)
(* the detector calls in flight, and every startCamera call's position.    *)
(*                                                                         *)
(* Numbers that JavaScript computes in floating point are modelled as      *)
(* exact rationals <<numerator, denominator>> in lowest terms.             *)
(***************************************************************************)
EXTENDS Integers, Sequences, FiniteSets, TLC

VARIABLES
    \* DOM and window
    canvasEl,          \* canvasRef.current is non-null
    ctxOk,             \* canvas.getContext('2d') returns a context
    videoEl,           \* videoRef.current is non-null
    videoWidth,        \* video.videoWidth (0: no intrinsic size yet)
    videoHeight,       \* video.videoHeight
    innerWidth,        \* window.innerWidth
    innerHeight,       \* window.innerHeight
    canvasW,           \* canvas.width (backing store)
    canvasH,           \* canvas.height
    painted,           \* what the canvas shows
    \* the hook's refs and React state
    handsRef,          \* handsRef.current is non-null
    cameraRef,         \* cameraRef.current: 0 (null) or a camera
    isInitialized,
    isStreaming,
    detectionResults,
    error,
    \* cameras, detector calls, startCamera calls
    camState,          \* each constructed camera's state
    sending,           \* cameras whose onFrame awaits hands.send
    calls,             \* each startCamera call: position and history
    disposed,          \* the cleanup effect has run
    \* history of the last step
    fit,               \* onResults' locals scaleX, scaleY, offsetX, offsetY
    thrown,            \* the last onResults raised an exception
    lastResults,       \* the results passed to the last onResults
    lastOp,            \* the operation that made the last step
    everStarted,       \* startCamera was called at least once
    stoppedClean       \* stopCamera returned and no startCamera succeeded since

vars == <<canvasEl, ctxOk, videoEl, videoWidth, videoHeight, innerWidth,
          innerHeight, canvasW, canvasH, painted, handsRef, cameraRef,
          isInitialized, isStreaming, detectionResults, error, camState,
          sending, calls, disposed, fit, thrown, lastResults, lastOp,
          everStarted, stoppedClean>>

domVars == <<canvasEl, ctxOk, videoEl, videoWidth, videoHeight, innerWidth,
             innerHeight, canvasW, canvasH, painted>>
renderVars == <<canvasW, canvasH, painted, detectionResults, fit, thrown,
                lastResults>>
lifeVars == <<handsRef, cameraRef, isInitialized, isStreaming, error,
              camState, sending, calls, disposed, everStarted, stoppedClean>>

----------------------------------------------------------------------------
(* Bounds *)

MaxCalls == 2      \* startCamera calls in one run
MaxDim == 4        \* small video and canvas sizes 1..MaxDim
MaxMissing == 2    \* landmark slots missing from one hand

(* Program constants *)

NumLandmarks == 21
CaptureWidth == 1280
CaptureHeight == 720

Calls == 1..MaxCalls

\* setError's messages (the source's are Japanese):
\* 'MediaPipeの初期化に失敗しました', 'カメラの開始に失敗しました'
ErrInit == "MediaPipe initialization failed"
ErrCamera == "camera start failed"

----------------------------------------------------------------------------
(* Exact rational arithmetic *)

RECURSIVE GCD(_, _)
GCD(a, b) == IF b = 0 THEN a ELSE GCD(b, a % b)

Abs(n) == IF n < 0 THEN -n ELSE n

Rat(n, d) ==
    LET g == GCD(Abs(n), d) IN <<n \div g, d \div g>>

IntR(k) == <<k, 1>>
RMul(a, b) == Rat(a[1] * b[1], a[2] * b[2])
RDiv(a, b) == Rat(a[1] * b[2], a[2] * b[1])
RAdd(a, b) == Rat(a[1] * b[2] + b[1] * a[2], a[2] * b[2])
RSub(a, b) == Rat(a[1] * b[2] - b[1] * a[2], a[2] * b[2])
RGt(a, b) == a[1] * b[2] > b[1] * a[2]
RLe(a, b) == a[1] * b[2] <= b[1] * a[2]
REq(a, b) == a[1] * b[2] = b[1] * a[2]

----------------------------------------------------------------------------
(* onResults: the fit transform *)

\* The `<' written for the source's `>': the transform that letterboxes.
FitTransformContain(vw, vh, cw, ch) ==
    LET videoAspect == Rat(vw, vh)
        canvasAspect == Rat(cw, ch)
    IN  IF RGt(canvasAspect, videoAspect)
        THEN LET sx == RMul(IntR(ch), videoAspect)
             IN  [scaleX |-> sx, scaleY |-> IntR(ch),
                  offsetX |-> RDiv(RSub(IntR(cw), sx), IntR(2)),
                  offsetY |-> IntR(0)]
        ELSE LET sy == RDiv(IntR(cw), videoAspect)
             IN  [scaleX |-> IntR(cw), scaleY |-> sy,
                  offsetX |-> IntR(0),
                  offsetY |-> RDiv(RSub(IntR(ch), sy), IntR(2))]

\* The centring offsets without their division by 2.
FitTransformNoHalf(vw, vh, cw, ch) ==
    LET videoAspect == Rat(vw, vh)
        canvasAspect == Rat(cw, ch)
    IN  IF RGt(videoAspect, canvasAspect)
        THEN LET sx == RMul(IntR(ch), videoAspect)
             IN  [scaleX |-> sx, scaleY |-> IntR(ch),
                  offsetX |-> RSub(IntR(cw), sx),
                  offsetY |-> IntR(0)]
        ELSE LET sy == RDiv(IntR(cw), videoAspect)
             IN  [scaleX |-> IntR(cw), scaleY |-> sy,
                  offsetX |-> IntR(0),
                  offsetY |-> RSub(IntR(ch), sy)]

\* scaleX, scaleY, offsetX, offsetY of onResults for a vw x vh video and a
\* cw x ch canvas (all > 0).
FitTransform(vw, vh, cw, ch) ==
    LET videoAspect == Rat(vw, vh)
        canvasAspect == Rat(cw, ch)
    IN  IF RGt(videoAspect, canvasAspect)
        THEN LET sx == RMul(IntR(ch), videoAspect)
             IN  [scaleX |-> sx, scaleY |-> IntR(ch),
                  offsetX |-> RDiv(RSub(IntR(cw), sx), IntR(2)),
                  offsetY |-> IntR(0)]
        ELSE LET sy == RDiv(IntR(cw), videoAspect)
             IN  [scaleX |-> IntR(cw), scaleY |-> sy,
                  offsetX |-> IntR(0),
                  offsetY |-> RDiv(RSub(IntR(ch), sy), IntR(2))]

----------------------------------------------------------------------------
(* Detection results and drawLandmarks *)

\* A landmark list is a sequence of slots; slot k+1 holds landmark index k:
\*   "lm"    a landmark object
\*   "undef" the value undefined (or null)
\*   "hole"  no element at that index (a sparse array)
\* An index at or past the length reads like a hole.
Slot(lms, k) == IF k + 1 <= Len(lms) THEN lms[k + 1] ELSE "hole"

\* `hand.landmarks[k]' as a condition: only an object is truthy.
Truthy(lms, k) == Slot(lms, k) = "lm"

\* Array.prototype.map and forEach skip holes and call back on every other
\* element; the callbacks read landmark.x, which throws on undefined.
CallbackThrows(lms) == \E k \in 0..(Len(lms) - 1) : Slot(lms, k) = "undef"

FirstUndef(lms) ==
    CHOOSE k \in 0..(Len(lms) - 1) :
        /\ Slot(lms, k) = "undef"
        /\ \A j \in 0..(k - 1) : Slot(lms, j) # "undef"

connections ==
    { <<0, 1>>, <<1, 2>>, <<2, 3>>, <<3, 4>>,
      <<0, 5>>, <<5, 6>>, <<6, 7>>, <<7, 8>>,
      <<5, 9>>, <<9, 10>>, <<10, 11>>, <<11, 12>>,
      <<9, 13>>, <<13, 14>>, <<14, 15>>, <<15, 16>>,
      <<13, 17>>, <<17, 18>>, <<18, 19>>, <<19, 20>>,
      <<0, 17>> }

\* results.multiHandLandmarks.forEach(...) of onResults: the hands pushed
\* onto detectedHands. results.multiHandedness?.[index] may be undefined.
DetectedHands(results) ==
    IF results.hasLandmarks /\ results.hasHandedness
    THEN [i \in 1..Len(results.multiHandLandmarks) |->
            LET known == i <= Len(results.multiHandedness)
            IN  [landmarks |-> results.multiHandLandmarks[i],
                 confidence |-> IF known THEN results.multiHandedness[i].score
                                ELSE 0,
                 handedness |-> IF known THEN results.multiHandedness[i].label
                                ELSE "Unknown"]]
    ELSE <<>>

\* landmarks.map(landmark => ({x: landmark.x, ...})) raises a TypeError.
MapThrows(results) ==
    /\ results.hasLandmarks /\ results.hasHandedness
    /\ \E i \in 1..Len(results.multiHandLandmarks) :
            CallbackThrows(results.multiHandLandmarks[i])

Blank == [bg |-> FALSE, edges |-> {}, discs |-> {}]
Background == [bg |-> TRUE, edges |-> {}, discs |-> {}]

\* The connection strokes of hand number h (0-based).
EdgesDrawn(h, lms) ==
    { <<h, e[1], e[2]>> : e \in { c \in connections :
                                    Truthy(lms, c[1]) /\ Truthy(lms, c[2]) } }

\* The landmark discs of hand number h: forEach stops at the first throw.
DiscsDrawn(h, lms) ==
    LET stop == IF CallbackThrows(lms) THEN FirstUndef(lms) ELSE Len(lms)
    IN  { <<h, k>> : k \in { j \in 0..(stop - 1) : Slot(lms, j) = "lm" } }

\* drawLandmarks(ctx, hands, ...): what it paints over `before', and whether
\* it throws. Hands after one that throws are not drawn.
DrawLandmarks(before, hands) ==
    LET bad == { i \in 1..Len(hands) : CallbackThrows(hands[i].landmarks) }
        last == IF bad = {} THEN Len(hands)
                ELSE CHOOSE i \in bad : \A j \in bad : i <= j
    IN  [painted |->
            [bg |-> before.bg,
             edges |-> before.edges \cup
                 UNION { EdgesDrawn(i - 1, hands[i].landmarks) : i \in 1..last },
             discs |-> before.discs \cup
                 UNION { DiscsDrawn(i - 1, hands[i].landmarks) : i \in 1..last }],
         thrown |-> bad # {}]

\* onResults(results), the detector's result callback.
OnResults(results) ==
    /\ lastOp' = "onResults"
    /\ lastResults' = results
    /\ UNCHANGED <<canvasEl, ctxOk, videoEl, videoWidth, videoHeight,
                   innerWidth, innerHeight>>
    /\ IF ~canvasEl \/ ~ctxOk
       THEN /\ UNCHANGED <<canvasW, canvasH, painted, detectionResults>>
            /\ fit' = <<>>
            /\ thrown' = FALSE
       ELSE \* canvas.width = ...; canvas.height = ... reset the bitmap
            /\ canvasW' = innerWidth
            /\ canvasH' = innerHeight
            /\ IF ~videoEl \/ videoWidth = 0 \/ videoHeight = 0
               THEN /\ painted' = Blank
                    /\ UNCHANGED detectionResults
                    /\ fit' = <<>>
                    /\ thrown' = FALSE
               ELSE /\ fit' = << FitTransform(videoWidth, videoHeight,
                                              innerWidth, innerHeight) >>
                    /\ IF MapThrows(results)
                       THEN /\ painted' = Background
                            /\ UNCHANGED detectionResults
                            /\ thrown' = TRUE
                       ELSE LET drawn == DrawLandmarks(Background,
                                                       DetectedHands(results))
                            IN  /\ detectionResults' = DetectedHands(results)
                                /\ painted' = drawn.painted
                                /\ thrown' = drawn.thrown

----------------------------------------------------------------------------
(* Inputs *)

FullHand == [k \in 1..NumLandmarks |-> "lm"]

Handedness(n) == [i \in 1..n |-> [label |-> "Right", score |-> 1]]

\* What the detector delivers: both lists undefined (no hand), or one
\* landmark list per hand with its handedness.
NoHands ==
    [hasLandmarks |-> FALSE, hasHandedness |-> FALSE,
     multiHandLandmarks |-> <<>>, multiHandedness |-> <<>>]

HandsResult(lists) ==
    [hasLandmarks |-> TRUE, hasHandedness |-> TRUE,
     multiHandLandmarks |-> lists, multiHandedness |-> Handedness(Len(lists))]

FrameResults == { NoHands, HandsResult(<<FullHand>>) }

----------------------------------------------------------------------------
(* The session: initializeMediaPipe, startCamera, stopCamera, cleanup *)

NoCall == [pc |-> "ready", uninit |-> FALSE, initOk |-> FALSE, end |-> "none"]

\* The next startCamera call is the lowest call not yet made.
NextCall(c) ==
    /\ calls[c].pc = "ready"
    /\ \A d \in Calls : d < c => calls[d].pc # "ready"

\* The body of initializeMediaPipe; ok: constructing and configuring Hands
\* does not throw.
InitializeBody(ok) ==
    IF ok
    THEN /\ handsRef' = TRUE
         /\ isInitialized' = TRUE
         /\ error' = ""
    ELSE /\ error' = ErrInit
         /\ UNCHANGED <<handsRef, isInitialized>>

\* initializeMediaPipe() called by the component (its mount effect).
InitializeMediaPipe ==
    /\ ~disposed
    /\ \E ok \in BOOLEAN : InitializeBody(ok)
    /\ lastOp' = "initializeMediaPipe"
    /\ UNCHANGED <<domVars, renderVars, cameraRef, isStreaming, camState,
                   sending, calls, disposed, everStarted, stoppedClean>>

\* startCamera() up to its first await (or its return, when `new Camera'
\* throws). ok: the constructor called on this path does not throw.
StartCamera(c) ==
    /\ ~disposed
    /\ NextCall(c)
    /\ everStarted' = TRUE
    /\ lastOp' = "startCamera"
    /\ \E ok \in BOOLEAN :
        IF ~handsRef \/ ~videoEl
        THEN /\ InitializeBody(ok)
             /\ calls' = [calls EXCEPT ![c] =
                    [pc |-> "awaitInit", uninit |-> ~handsRef,
                     initOk |-> ok, end |-> "none"]]
             /\ UNCHANGED camState
        ELSE IF ok
        THEN /\ camState' = [camState EXCEPT ![c] = "starting"]
             /\ calls' = [calls EXCEPT ![c] =
                    [pc |-> "awaitStart", uninit |-> FALSE,
                     initOk |-> FALSE, end |-> "none"]]
             /\ UNCHANGED <<handsRef, isInitialized, error>>
        ELSE /\ error' = ErrCamera
             /\ calls' = [calls EXCEPT ![c] =
                    [pc |-> "returned", uninit |-> FALSE,
                     initOk |-> FALSE, end |-> "failed"]]
             /\ UNCHANGED <<handsRef, isInitialized, camState>>
    /\ UNCHANGED <<domVars, renderVars, cameraRef, isStreaming, sending,
                   disposed, stoppedClean>>

\* `await initializeMediaPipe(); return;'
StartCameraReturn(c) ==
    /\ calls[c].pc = "awaitInit"
    /\ calls' = [calls EXCEPT ![c].pc = "returned", ![c].end = "initOnly"]
    /\ lastOp' = "startReturn"
    /\ UNCHANGED <<domVars, renderVars, handsRef, cameraRef, isInitialized,
                   isStreaming, error, camState, sending, disposed,
                   everStarted, stoppedClean>>

\* camera.start() resolves; startCamera goes on after its await.
CameraStarted(c) ==
    /\ calls[c].pc = "awaitStart"
    /\ camState' = [camState EXCEPT ![c] = "running"]
    /\ cameraRef' = c
    /\ isStreaming' = TRUE
    /\ error' = ""
    /\ stoppedClean' = FALSE
    /\ calls' = [calls EXCEPT ![c].pc = "returned", ![c].end = "streaming"]
    /\ lastOp' = "startOk"
    /\ UNCHANGED <<domVars, renderVars, handsRef, isInitialized, sending,
                   disposed, everStarted>>

\* camera.start() rejects (permission denied); the catch block runs.
CameraStartFailed(c) ==
    /\ calls[c].pc = "awaitStart"
    /\ camState' = [camState EXCEPT ![c] = "failed"]
    /\ error' = ErrCamera
    /\ calls' = [calls EXCEPT ![c].pc = "returned", ![c].end = "failed"]
    /\ lastOp' = "startFailed"
    /\ UNCHANGED <<domVars, renderVars, handsRef, cameraRef, isInitialized,
                   isStreaming, sending, disposed, everStarted, stoppedClean>>

\* A stopCamera that also clears the error message.
StopCameraClearsError(keep) ==
    /\ IF cameraRef # 0
       THEN /\ camState' = [camState EXCEPT ![cameraRef] = "stopped"]
            /\ cameraRef' = 0
            /\ videoWidth' = IF keep THEN videoWidth ELSE 0
            /\ videoHeight' = IF keep THEN videoHeight ELSE 0
       ELSE UNCHANGED <<camState, cameraRef, videoWidth, videoHeight>>
    /\ isStreaming' = FALSE
    /\ detectionResults' = <<>>
    /\ error' = ""
    /\ stoppedClean' = TRUE

\* The body of stopCamera. keep: the video element keeps its intrinsic size
\* once the camera's stream has stopped (the camera library's concern).
StopCameraBody(keep) ==
    /\ IF cameraRef # 0
       THEN /\ camState' = [camState EXCEPT ![cameraRef] = "stopped"]
            /\ cameraRef' = 0
            /\ videoWidth' = IF keep THEN videoWidth ELSE 0
            /\ videoHeight' = IF keep THEN videoHeight ELSE 0
       ELSE UNCHANGED <<camState, cameraRef, videoWidth, videoHeight>>
    /\ isStreaming' = FALSE
    /\ detectionResults' = <<>>
    /\ UNCHANGED error
    /\ stoppedClean' = TRUE

\* stopCamera() called by the hook's user.
StopCamera ==
    /\ ~disposed
    /\ \E keep \in BOOLEAN : StopCameraBody(keep)
    /\ lastOp' = "stopCamera"
    /\ UNCHANGED <<canvasEl, ctxOk, videoEl, innerWidth, innerHeight, canvasW,
                   canvasH, painted, fit, thrown, lastResults, handsRef,
                   isInitialized, sending, calls, disposed, everStarted>>

\* The component unmounts: React detaches the refs and runs the cleanup
\* effect, which calls stopCamera().
Dispose ==
    /\ ~disposed
    /\ disposed' = TRUE
    /\ canvasEl' = FALSE
    /\ videoEl' = FALSE
    /\ \E keep \in BOOLEAN : StopCameraBody(keep)
    /\ lastOp' = "dispose"
    /\ UNCHANGED <<ctxOk, innerWidth, innerHeight, canvasW, canvasH, painted,
                   fit, thrown, lastResults, handsRef, isInitialized, sending,
                   calls, everStarted>>

\* The video element gets the stream's metadata and plays.
VideoLoaded ==
    /\ \E c \in Calls : camState[c] = "running"
    /\ videoWidth = 0
    /\ videoWidth' = CaptureWidth
    /\ videoHeight' = CaptureHeight
    /\ lastOp' = "videoLoaded"
    /\ UNCHANGED <<canvasEl, ctxOk, videoEl, innerWidth, innerHeight, canvasW,
                   canvasH, painted, renderVars, lifeVars>>

\* A running camera's onFrame callback, up to its await of hands.send.
OnFrame(c) ==
    /\ camState[c] = "running"
    /\ videoWidth # 0
    /\ c \notin sending
    /\ sending' = IF handsRef /\ videoEl THEN sending \cup {c} ELSE sending
    /\ lastOp' = "onFrame"
    /\ UNCHANGED <<domVars, renderVars, handsRef, cameraRef, isInitialized,
                   isStreaming, error, camState, calls, disposed, everStarted,
                   stoppedClean>>

\* hands.send completes: the detector calls onResults and onFrame returns.
SendCompletes(c, results) ==
    /\ c \in sending
    /\ sending' = sending \ {c}
    /\ OnResults(results)
    /\ UNCHANGED <<handsRef, cameraRef, isInitialized, isStreaming, error,
                   camState, calls, disposed, everStarted, stoppedClean>>

Init ==
    /\ canvasEl = TRUE
    /\ ctxOk = TRUE
    /\ videoEl = TRUE
    /\ videoWidth = 0
    /\ videoHeight = 0
    /\ innerWidth = 600
    /\ innerHeight = 600
    /\ canvasW = 300
    /\ canvasH = 150
    /\ painted = Blank
    /\ handsRef = FALSE
    /\ cameraRef = 0
    /\ isInitialized = FALSE
    /\ isStreaming = FALSE
    /\ detectionResults = <<>>
    /\ error = ""
    /\ camState = [c \in Calls |-> "none"]
    /\ sending = {}
    /\ calls = [c \in Calls |-> NoCall]
    /\ disposed = FALSE
    /\ fit = <<>>
    /\ thrown = FALSE
    /\ lastResults = NoHands
    /\ lastOp = "init"
    /\ everStarted = FALSE
    /\ stoppedClean = FALSE

Next ==
    \/ InitializeMediaPipe
    \/ \E c \in Calls : StartCamera(c)
    \/ \E c \in Calls : StartCameraReturn(c)
    \/ \E c \in Calls : CameraStarted(c)
    \/ \E c \in Calls : CameraStartFailed(c)
    \/ StopCamera
    \/ Dispose
    \/ VideoLoaded
    \/ \E c \in Calls : OnFrame(c)
    \/ \E c \in Calls, results \in FrameResults : SendCompletes(c, results)

Spec == Init /\ [][Next]_vars

----------------------------------------------------------------------------
(* A streaming session: what Spec reaches by initializeMediaPipe,          *)
(* startCamera, camera.start() resolving and the video loading.            *)

StreamingSession ==
    /\ handsRef = TRUE
    /\ cameraRef = 1
    /\ isInitialized = TRUE
    /\ isStreaming = TRUE
    /\ error = ""
    /\ camState = [c \in Calls |-> IF c = 1 THEN "running" ELSE "none"]
    /\ calls = [c \in Calls |->
                  IF c = 1
                  THEN [pc |-> "returned", uninit |-> FALSE,
                        initOk |-> FALSE, end |-> "streaming"]
                  ELSE NoCall]
    /\ disposed = FALSE
    /\ everStarted = TRUE
    /\ stoppedClean = FALSE
    /\ detectionResults = <<>>
    /\ painted = Blank
    /\ canvasW = 300
    /\ canvasH = 150
    /\ fit = <<>>
    /\ thrown = FALSE
    /\ lastResults = NoHands
    /\ lastOp = "videoLoaded"

----------------------------------------------------------------------------
(* SpecFit: frames rendered for every video size and viewport size *)

Sizes == (1..MaxDim) \cup {400, 600, 720, 800, 1280}

InitFit ==
    /\ StreamingSession
    /\ sending = {}
    /\ canvasEl = TRUE
    /\ ctxOk = TRUE
    /\ videoEl = TRUE
    /\ videoWidth \in Sizes
    /\ videoHeight \in Sizes
    /\ innerWidth \in Sizes
    /\ innerHeight \in Sizes

NextFit ==
    \/ OnFrame(1)
    \/ \E results \in FrameResults : SendCompletes(1, results)

SpecFit == InitFit /\ [][NextFit]_vars

----------------------------------------------------------------------------
(* SpecRender: frames rendered while the canvas, its context, the video    *)
(* element and the video's size come and go                                *)

Viewports == { <<600, 600>>, <<400, 800>> }

\* The window is resized.
WindowResize(w, h) ==
    /\ <<innerWidth, innerHeight>> # <<w, h>>
    /\ innerWidth' = w
    /\ innerHeight' = h
    /\ lastOp' = "resize"
    /\ UNCHANGED <<canvasEl, ctxOk, videoEl, videoWidth, videoHeight,
                   renderVars, lifeVars>>

\* The video element loses its intrinsic size (its stream ends or is reset).
VideoSizeLost ==
    /\ videoWidth # 0
    /\ videoWidth' = 0
    /\ videoHeight' = 0
    /\ lastOp' = "videoSizeLost"
    /\ UNCHANGED <<canvasEl, ctxOk, videoEl, innerWidth, innerHeight,
                   renderVars, lifeVars>>

\* The canvas element is removed from the tree: canvasRef.current = null.
CanvasDetached ==
    /\ canvasEl
    /\ canvasEl' = FALSE
    /\ lastOp' = "canvasDetached"
    /\ UNCHANGED <<ctxOk, videoEl, videoWidth, videoHeight, innerWidth,
                   innerHeight, renderVars, lifeVars>>

\* The video element is removed from the tree: videoRef.current = null.
VideoDetached ==
    /\ videoEl
    /\ videoEl' = FALSE
    /\ lastOp' = "videoDetached"
    /\ UNCHANGED <<canvasEl, ctxOk, videoWidth, videoHeight, innerWidth,
                   innerHeight, renderVars, lifeVars>>

InitRender ==
    /\ StreamingSession
    /\ sending = {}
    /\ canvasEl = TRUE
    /\ ctxOk \in BOOLEAN
    /\ videoEl = TRUE
    /\ videoWidth = CaptureWidth
    /\ videoHeight = CaptureHeight
    /\ \E v \in Viewports : innerWidth = v[1] /\ innerHeight = v[2]

NextRender ==
    \/ OnFrame(1)
    \/ \E results \in FrameResults : SendCompletes(1, results)
    \/ \E v \in Viewports : WindowResize(v[1], v[2])
    \/ VideoSizeLost
    \/ VideoLoaded
    \/ CanvasDetached
    \/ VideoDetached

SpecRender == InitRender /\ [][NextRender]_vars

----------------------------------------------------------------------------
(* SpecDraw: one frame's result, over hands with missing landmark slots *)

RECURSIVE IndexSets(_)
IndexSets(n) ==
    IF n = 0 THEN { {} }
    ELSE LET smaller == IndexSets(n - 1)
         IN  smaller \cup
             { s \cup {k} : s \in smaller, k \in 0..(NumLandmarks - 1) }

\* A hand whose slots `missing' hold `kind' ("undef" or "hole").
HandWithout(missing, kind) ==
    [k \in 1..NumLandmarks |-> IF (k - 1) \in missing THEN kind ELSE "lm"]

\* A landmark list that ends n slots early.
ShortHand(n) == [k \in 1..(NumLandmarks - n) |-> "lm"]

HandShapes ==
    { HandWithout(m, kind) : m \in IndexSets(MaxMissing),
                             kind \in {"undef", "hole"} }
    \cup { ShortHand(n) : n \in 0..MaxMissing }

DrawResults ==
    {NoHands}
    \cup { HandsResult(<<h>>) : h \in HandShapes }
    \cup { HandsResult(<<FullHand, h>>) : h \in HandShapes }

InitDraw ==
    /\ StreamingSession
    /\ sending = {1}
    /\ canvasEl = TRUE
    /\ ctxOk = TRUE
    /\ videoEl = TRUE
    /\ videoWidth = CaptureWidth
    /\ videoHeight = CaptureHeight
    /\ innerWidth = 600
    /\ innerHeight = 600

NextDraw ==
    \/ \E results \in DrawResults : SendCompletes(1, results)
    \/ StopCamera

SpecDraw == InitDraw /\ [][NextDraw]_vars

----------------------------------------------------------------------------
(* Claims *)

\* The transformed video box, from the locals of the last onResults.
BoxRight(t) == RAdd(t.offsetX, t.scaleX)
BoxBottom(t) == RAdd(t.offsetY, t.scaleY)
IsZero(r) == r[1] = 0

\* C1 as stated: the fit transform never crops: the transformed video box
\* lies inside the canvas, exactly one of offsetX and offsetY is zero and
\* the other is non-negative. (With equal aspect ratios the box is the
\* canvas and both offsets are zero; the statement is read as asking for
\* one zero offset there, so that a violation is a cropped box.)
C1_NeverCrops ==
    fit # <<>> =>
        LET t == fit[1]
        IN  /\ RLe(IntR(0), t.offsetX) /\ RLe(BoxRight(t), IntR(canvasW))
            /\ RLe(IntR(0), t.offsetY) /\ RLe(BoxBottom(t), IntR(canvasH))
            /\ IsZero(t.offsetX) \/ IsZero(t.offsetY)
            /\ (videoWidth * canvasH # canvasW * videoHeight)
                   => (IsZero(t.offsetX) # IsZero(t.offsetY))

\* C1 amended: the fit transform covers the canvas and never letterboxes:
\* the canvas lies inside the transformed video box, which keeps the video's
\* aspect ratio and is centred; at least one of offsetX and offsetY is zero
\* (both exactly when the two aspect ratios are equal) and the other is
\* non-positive.
C1_Covers ==
    fit # <<>> =>
        LET t == fit[1]
        IN  /\ RLe(t.offsetX, IntR(0)) /\ RLe(IntR(canvasW), BoxRight(t))
            /\ RLe(t.offsetY, IntR(0)) /\ RLe(IntR(canvasH), BoxBottom(t))
            /\ IsZero(t.offsetX) \/ IsZero(t.offsetY)
            /\ (IsZero(t.offsetX) /\ IsZero(t.offsetY))
                   <=> (videoWidth * canvasH = canvasW * videoHeight)
            /\ REq(RMul(t.scaleX, IntR(videoHeight)),
                   RMul(t.scaleY, IntR(videoWidth)))
            /\ REq(RAdd(t.offsetX, BoxRight(t)), IntR(canvasW))
            /\ REq(RAdd(t.offsetY, BoxBottom(t)), IntR(canvasH))

\* A frame was rendered with part of the video box outside the canvas.
C1_Witness ==
    /\ lastOp = "onResults"
    /\ fit # <<>>
    /\ fit[1].offsetX[1] < 0

\* A frame of a 1280x720 video was rendered on a 600x600 canvas.
C8_Case ==
    /\ fit # <<>>
    /\ videoWidth = 1280 /\ videoHeight = 720
    /\ canvasW = 600 /\ canvasH = 600

\* C8 as stated: for a 1280x720 video and a 600x600 canvas, scaleX = 600,
\* scaleY = 337.5, offsetX = 0 and offsetY = 131.25.
C8_FitsWidth ==
    C8_Case =>
        /\ REq(fit[1].scaleX, IntR(600))
        /\ REq(fit[1].scaleY, <<675, 2>>)
        /\ REq(fit[1].offsetX, IntR(0))
        /\ REq(fit[1].offsetY, <<525, 4>>)

\* C8 amended: for a 1280x720 video and a 600x600 canvas the transform
\* scales to the canvas height: scaleY = 600, scaleX = 3200/3 (1066.67),
\* offsetX = -700/3 (-233.33) and offsetY = 0.
C8_FitsHeight ==
    C8_Case =>
        /\ REq(fit[1].scaleX, <<3200, 3>>)
        /\ REq(fit[1].scaleY, IntR(600))
        /\ REq(fit[1].offsetX, <<-700, 3>>)
        /\ REq(fit[1].offsetY, IntR(0))

C8_Witness == C8_Case /\ lastOp = "onResults"

\* C2: a startCamera call that found the detector uninitialized and whose
\* initialization succeeded has, when it returns, constructed a camera and,
\* unless that camera failed to start, holds it with the state streaming.
C2_InitThenStart ==
    \A c \in Calls :
        (calls[c].pc = "returned" /\ calls[c].uninit /\ calls[c].initOk)
            => /\ camState[c] # "none"
               /\ camState[c] # "failed" => calls[c].end = "streaming"

\* C3: after disposal no camera is started and not stopped.
C3_ReleasedOnDispose ==
    disposed => \A c \in Calls : camState[c] # "running"

\* C4: a startCamera call that fails with the detector initialized leaves a
\* non-empty error and a state that is not streaming; one that succeeds
\* leaves an empty error and a streaming state.
C4_FailThenRecover ==
    [][ /\ (\E c \in Calls : calls[c].end # "failed" /\ calls'[c].end = "failed")
            => (error' # "" /\ ~isStreaming')
        /\ (\E c \in Calls : calls[c].end # "streaming"
                             /\ calls'[c].end = "streaming")
            => (error' = "" /\ isStreaming') ]_vars

\* C5: a stopCamera call made when startCamera was never called leaves
\* isInitialized, isStreaming, detectionResults, error, the detector handle
\* and the camera handle as they were.
C5_StopBeforeStartNoOp ==
    [][ (lastOp' = "stopCamera" /\ ~everStarted)
            => UNCHANGED <<isInitialized, isStreaming, detectionResults,
                           error, handsRef, cameraRef>> ]_vars

\* stopCamera ran after a failed initialization, startCamera never called.
C5_Witness ==
    /\ lastOp = "stopCamera"
    /\ ~everStarted
    /\ error = ErrInit
    /\ ~isInitialized

\* C6: onResults called while the canvas context, the video element or the
\* video's intrinsic size is unavailable raises nothing and leaves the
\* canvas (size and content) and the detection results as they were.
C6_UnavailableNoOp ==
    [][ (lastOp' = "onResults"
         /\ (~canvasEl \/ ~ctxOk \/ ~videoEl
             \/ videoWidth = 0 \/ videoHeight = 0))
            => (/\ ~thrown'
                /\ UNCHANGED <<canvasW, canvasH, painted,
                               detectionResults>>) ]_vars

\* Some landmark slot of the list is missing or undefined.
HasMissing(lms) ==
    \E k \in 0..(NumLandmarks - 1) : Slot(lms, k) # "lm"

\* C7: a rendered result with a hand that has missing or undefined landmark
\* slots raises nothing, and the connections drawn for each hand are
\* exactly those whose two endpoints are present.
C7_MissingLandmarksSkipped ==
    (/\ lastOp = "onResults"
     /\ fit # <<>>
     /\ \E i \in 1..Len(lastResults.multiHandLandmarks) :
            HasMissing(lastResults.multiHandLandmarks[i]))
        => /\ ~thrown
           /\ \A i \in 1..Len(lastResults.multiHandLandmarks) :
                \A e \in connections :
                    (<<i - 1, e[1], e[2]>> \in painted.edges)
                        <=> /\ Slot(lastResults.multiHandLandmarks[i], e[1]) = "lm"
                            /\ Slot(lastResults.multiHandLandmarks[i], e[2]) = "lm"

\* C9: from stopCamera's return until a startCamera succeeds, isStreaming
\* is false and detectionResults is empty.
C9_StoppedStaysCleared ==
    stoppedClean => (~isStreaming /\ detectionResults = <<>>)

\* C10: at most one camera is started and not stopped, and cameraRef holds it.
C10_OneCameraHeld ==
    /\ Cardinality({ c \in Calls : camState[c] = "running" }) <= 1
    /\ \A c \in Calls : camState[c] = "running" => cameraRef = c

====
